---- MODULE Spec2Model ----
(***************************************************************************)
(* A model of backend/server.py: a FastAPI application whose handlers are  *)
(* coroutines over a MongoDB store.  Every `await db....` is a suspension  *)
(* point, so each action below is one store operation together with the    *)
(* local code that runs before the coroutine suspends again.               *)
(*                                                                         *)
(* Abstractions: uuid4() is a fresh number per collection; utcnow() is a   *)
(* logical clock that ticks when read; a bearer token is the username it   *)
(* was signed for (BadToken when decoding fails); a word's text is a       *)
(* sequence of characters so that the regex prefix match can be computed;  *)
(* the password hash and the timestamps of users, languages and            *)
(* contributions are left out.                                             *)
(***************************************************************************)
EXTENDS Integers, Sequences, FiniteSets, TLC

VARIABLES users, languages, words, contributions,
          boot, pc, req, loc, resp,
          nextUserId, nextWordId, clock, served

vars == <<users, languages, words, contributions, boot, pc, req, loc, resp,
          nextUserId, nextWordId, clock, served>>

store == <<users, languages, words, contributions>>

(***************************************************************************)
(* Bounds of the model.                                                    *)
(***************************************************************************)
\* requests accepted in one behaviour of Spec (handlers run concurrently)
MaxRequests == 2
\* requests accepted in one behaviour of SpecSeq (handlers run one at a time)
MaxSeqRequests == 12
\* requests accepted in one behaviour of SpecSearch
MaxSearchRequests == 2

\* the request-handling coroutines that may be in flight together
Procs == {"h1", "h2"}

(***************************************************************************)
(* Program constants.                                                      *)
(***************************************************************************)
\* if current_user.contribution_count % 10 == 0
RankStep == 10
\* db.words.find(query).to_list(100) in search_words
SearchLimit == 100
\* to_list(1000) in get_languages, get_words and get_user_contributions
ListLimit == 1000

\* Python's None, for Optional[str] parameters and dict.get misses
None == "<None>"
\* a token that jwt.decode rejects, or that carries no "sub"
BadToken == "<bad token>"

Falsy(s) == s = None \/ s = ""

Min(S) == CHOOSE i \in S : \A j \in S : i <= j

Take(s, n) == IF Len(s) <= n THEN s ELSE SubSeq(s, 1, n)

(***************************************************************************)
(* The models (pydantic classes).                                          *)
(***************************************************************************)
UserRole == {"user", "contributor", "moderator", "admin"}

User(id, email, username, role) ==
    [id |-> id, email |-> email, username |-> username, role |-> role,
     contributor_rank |-> 0, contribution_count |-> 0]

Word(id, word, language_id, meanings, created_by, now) ==
    [id |-> id, word |-> word, language_id |-> language_id, meanings |-> meanings,
     created_by |-> created_by, last_modified_by |-> created_by,
     created_at |-> now, updated_at |-> now]

Contribution(user_id, word_id, contribution_type, change_details) ==
    [user_id |-> user_id, word_id |-> word_id,
     contribution_type |-> contribution_type, change_details |-> change_details]

Language(id, name, code) == [id |-> id, name |-> name, code |-> code]

(***************************************************************************)
(* The store's operations.  A collection is the sequence of its documents  *)
(* in insertion order; find_one returns the first match, as <<doc>>, or    *)
(* <<>> for None.                                                          *)
(***************************************************************************)
Matching(coll, field, value) == {i \in DOMAIN coll : coll[i][field] = value}

find_one(coll, field, value) ==
    LET idx == Matching(coll, field, value)
    IN  IF idx = {} THEN <<>> ELSE <<coll[Min(idx)]>>

\* find(...): every match, in insertion order
find(coll, field, value) == SelectSeq(coll, LAMBDA doc : doc[field] = value)

insert_one(coll, doc) == Append(coll, doc)

\* update_one({"id": id}, {"$inc": {field: 1}}): the first match, atomically
update_one_inc(coll, id, field) ==
    LET idx == Matching(coll, "id", id)
    IN  IF idx = {} THEN coll
        ELSE [coll EXCEPT ![Min(idx)] = [@ EXCEPT ![field] = @ + 1]]

\* update_one({"id": id}, {"$set": update}): the first match, atomically
update_one_set(coll, id, update) ==
    LET idx == Matching(coll, "id", id)
    IN  IF idx = {} THEN coll
        ELSE [coll EXCEPT ![Min(idx)] =
                 [f \in DOMAIN @ \cup DOMAIN update |->
                     IF f \in DOMAIN update THEN update[f] ELSE @[f]]]

get_user(username) == find_one(users, "username", username)

get_current_user(token) ==
    IF token = BadToken THEN <<>> ELSE get_user(token)

(***************************************************************************)
(* Initial states.  The store outlives the process: the server starts on   *)
(* an empty database (first deployment) or on one an earlier run left      *)
(* behind, in which roles other than contributor and admin were assigned   *)
(* by an operator (no handler changes a role).                             *)
(***************************************************************************)
\* common_languages of startup_db_client
CommonLanguages ==
    << Language("l-en", "English", "en"),   Language("l-es", "Spanish", "es"),
       Language("l-fr", "French", "fr"),    Language("l-de", "German", "de"),
       Language("l-zh", "Chinese", "zh"),   Language("l-ja", "Japanese", "ja"),
       Language("l-ru", "Russian", "ru"),   Language("l-ar", "Arabic", "ar"),
       Language("l-hi", "Hindi", "hi"),     Language("l-pt", "Portuguese", "pt") >>

AdminUser(id) == User(id, "admin@example.com", "admin", "admin")

Cat == <<"c", "a", "t">>

\* what an earlier run left behind: alice added the word "cat" (one
\* contribution, read count 0, so rank 1)
EarlierUsers ==
    << AdminUser(1),
       [User(2, "alice@example.com", "alice", "user")
            EXCEPT !.contribution_count = 1, !.contributor_rank = 1],
       User(3, "mod@example.com", "mod", "moderator") >>

EarlierWords ==
    << Word(1, Cat, "l-en", <<[language_id |-> "l-es", meaning |-> "gato"]>>, 2, 0) >>

EarlierContributions == << Contribution(2, 1, "add", [word |-> Cat]) >>

NoReq == [op |-> "none"]
NoLoc == [op |-> "none"]
NoResp == [status |-> 0]

InitProcs ==
    /\ boot = "count"
    /\ pc = [p \in Procs |-> "idle"]
    /\ req = [p \in Procs |-> NoReq]
    /\ loc = [p \in Procs |-> NoLoc]
    /\ resp = [p \in Procs |-> NoResp]
    /\ served = 0

InitEmpty ==
    /\ users = <<>> /\ languages = <<>> /\ words = <<>> /\ contributions = <<>>
    /\ nextUserId = 1 /\ nextWordId = 1 /\ clock = 0

InitEarlier ==
    /\ users = EarlierUsers /\ languages = CommonLanguages
    /\ words = EarlierWords /\ contributions = EarlierContributions
    /\ nextUserId = 4 /\ nextWordId = 2 /\ clock = 1

Init == InitProcs /\ (InitEmpty \/ InitEarlier)

(***************************************************************************)
(* startup_db_client: runs to completion before the first request.         *)
(***************************************************************************)
startup_count ==
    /\ boot = "count"
    /\ boot' = IF Len(languages) = 0 THEN "insert_languages" ELSE "serving"
    /\ UNCHANGED <<store, pc, req, loc, resp, nextUserId, nextWordId, clock, served>>

startup_insert_languages ==
    /\ boot = "insert_languages"
    /\ languages' = languages \o CommonLanguages
    /\ boot' = "find_admin"
    /\ UNCHANGED <<users, words, contributions, pc, req, loc, resp,
                   nextUserId, nextWordId, clock, served>>

\* the admin document is built (its id drawn) before insert_one is awaited
startup_find_admin ==
    /\ boot = "find_admin"
    /\ IF find_one(users, "username", "admin") = <<>>
       THEN boot' = "insert_admin" /\ nextUserId' = nextUserId + 1
       ELSE boot' = "serving" /\ UNCHANGED nextUserId
    /\ UNCHANGED <<store, pc, req, loc, resp, nextWordId, clock, served>>

startup_insert_admin ==
    /\ boot = "insert_admin"
    /\ users' = insert_one(users, AdminUser(nextUserId - 1))
    /\ boot' = "serving"
    /\ UNCHANGED <<languages, words, contributions, pc, req, loc, resp,
                   nextUserId, nextWordId, clock, served>>

(***************************************************************************)
(* Request handling: shared shapes.                                        *)
(***************************************************************************)
\* a handler starts: FastAPI serves requests once startup has completed
Accept(p, request) ==
    /\ boot = "serving"
    /\ pc[p] = "idle"
    /\ req' = [req EXCEPT ![p] = request]
    /\ served' = served + 1

Goto(p, label) == pc' = [pc EXCEPT ![p] = label]

\* the handler returns or raises HTTPException: the response is complete
Respond(p, status, body) ==
    /\ pc' = [pc EXCEPT ![p] = "done"]
    /\ resp' = [resp EXCEPT ![p] = [status |-> status, body |-> body]]

\* the response has been sent; the coroutine and its locals are gone
Return(p) ==
    /\ pc[p] = "done"
    /\ pc' = [pc EXCEPT ![p] = "idle"]
    /\ req' = [req EXCEPT ![p] = NoReq]
    /\ loc' = [loc EXCEPT ![p] = NoLoc]
    /\ resp' = [resp EXCEPT ![p] = NoResp]
    /\ UNCHANGED <<store, boot, nextUserId, nextWordId, clock, served>>

\* get_current_user raising credentials_exception
Unauthorized(p) ==
    /\ Respond(p, 401, "Could not validate credentials")
    /\ UNCHANGED loc

(***************************************************************************)
(* register_user                                                           *)
(***************************************************************************)
\* find_one({"username": ...}); 400 when taken
register_user(p, user_data) ==
    /\ Accept(p, [op |-> "register_user", user_data |-> user_data])
    /\ IF find_one(users, "username", user_data.username) # <<>>
       THEN Respond(p, 400, "Username already registered")
       ELSE Goto(p, "register_find_email") /\ UNCHANGED resp
    /\ UNCHANGED <<store, boot, loc, nextUserId, nextWordId, clock>>

\* find_one({"email": ...}); 400 when taken, else the User document is built
register_find_email(p) ==
    /\ pc[p] = "register_find_email"
    /\ IF find_one(users, "email", req[p].user_data.email) # <<>>
       THEN /\ Respond(p, 400, "Email already registered")
            /\ UNCHANGED <<loc, nextUserId>>
       ELSE /\ Goto(p, "register_insert")
            /\ loc' = [loc EXCEPT ![p] =
                         [user_in_db |-> User(nextUserId, req[p].user_data.email,
                                              req[p].user_data.username, "contributor")]]
            /\ nextUserId' = nextUserId + 1
            /\ UNCHANGED resp
    /\ UNCHANGED <<store, boot, req, nextWordId, clock, served>>

\* insert_one(user_in_db.dict()); the response is the user
register_insert(p) ==
    /\ pc[p] = "register_insert"
    /\ users' = insert_one(users, loc[p].user_in_db)
    /\ Respond(p, 200, loc[p].user_in_db)
    /\ UNCHANGED <<languages, words, contributions, boot, req, loc,
                   nextUserId, nextWordId, clock, served>>

(***************************************************************************)
(* create_language (Depends(is_moderator))                                 *)
(***************************************************************************)
\* mutant of is_moderator: only the plain user role is kept out
is_not_plain_user(current_user) == current_user.role # "user"

\* is_moderator's test on the resolved user
is_moderator(current_user) == current_user.role \in {"moderator", "admin"}

create_language(p, token, language) ==
    /\ Accept(p, [op |-> "create_language", token |-> token, language |-> language])
    /\ LET cu == get_current_user(token)
       IN  IF cu = <<>> THEN Unauthorized(p)
           ELSE IF ~is_moderator(cu[1])
           THEN /\ Respond(p, 403, "Insufficient permissions")
                /\ loc' = [loc EXCEPT ![p] = [current_user |-> cu[1]]]
           ELSE /\ Goto(p, "create_language_insert")
                /\ loc' = [loc EXCEPT ![p] = [current_user |-> cu[1]]]
                /\ UNCHANGED resp
    /\ UNCHANGED <<store, boot, nextUserId, nextWordId, clock>>

create_language_insert(p) ==
    /\ pc[p] = "create_language_insert"
    /\ languages' = insert_one(languages, req[p].language)
    /\ Respond(p, 200, req[p].language)
    /\ UNCHANGED <<users, words, contributions, boot, req, loc,
                   nextUserId, nextWordId, clock, served>>

(***************************************************************************)
(* The contribution accounting that ends create_word and update_word.      *)
(***************************************************************************)
\* mutants of RankBump: a test that skips the first contribution, a test on
\* the tenth contribution, and a test on the count as the store holds it
RankBumpSkippingZero(current_user) ==
    /\ current_user.contribution_count > 0
    /\ current_user.contribution_count % RankStep = 0

RankBumpOnTenth(current_user) ==
    current_user.contribution_count % RankStep = RankStep - 1

RankBumpOnStoredCount(current_user) ==
    find_one(users, "id", current_user.id)[1].contribution_count % RankStep = 0

\* "Simple ranking algorithm": the test on the user resolved at the start
RankBump(current_user) == current_user.contribution_count % RankStep = 0

\* mutant of IncCount: the count read at the start, plus one, is written back
IncCountFromSnapshot(p) ==
    users' = update_one_set(users, loc[p].current_user.id,
                            [contribution_count |-> loc[p].current_user.contribution_count + 1])

\* update_one({"id": current_user.id}, {"$inc": {"contribution_count": 1}})
IncCount(p) ==
    users' = update_one_inc(users, loc[p].current_user.id, "contribution_count")

\* update_one({"id": current_user.id}, {"$inc": {"contributor_rank": 1}})
IncRank(p) ==
    users' = update_one_inc(users, loc[p].current_user.id, "contributor_rank")

(***************************************************************************)
(* create_word                                                             *)
(***************************************************************************)
\* the dependency resolves the user; new_word is built (id, timestamps)
create_word(p, token, word_data) ==
    /\ Accept(p, [op |-> "create_word", token |-> token, word_data |-> word_data])
    /\ LET cu == get_current_user(token)
       IN  IF cu = <<>>
           THEN Unauthorized(p) /\ UNCHANGED <<nextWordId, clock>>
           ELSE /\ Goto(p, "create_word_insert")
                /\ loc' = [loc EXCEPT ![p] =
                             [current_user |-> cu[1],
                              new_word |-> Word(nextWordId, word_data.word,
                                                word_data.language_id, word_data.meanings,
                                                cu[1].id, clock)]]
                /\ nextWordId' = nextWordId + 1
                /\ clock' = clock + 1
                /\ UNCHANGED resp
    /\ UNCHANGED <<store, boot, nextUserId>>

create_word_insert(p) ==
    /\ pc[p] = "create_word_insert"
    /\ words' = insert_one(words, loc[p].new_word)
    /\ Goto(p, "create_word_record")
    /\ UNCHANGED <<users, languages, contributions, boot, req, loc, resp,
                   nextUserId, nextWordId, clock, served>>

create_word_record(p) ==
    /\ pc[p] = "create_word_record"
    /\ contributions' = insert_one(contributions,
                            Contribution(loc[p].current_user.id, loc[p].new_word.id,
                                         "add", [word |-> req[p].word_data.word]))
    /\ Goto(p, "create_word_count")
    /\ UNCHANGED <<users, languages, words, boot, req, loc, resp,
                   nextUserId, nextWordId, clock, served>>

\* the count is advanced; the rank test decides between one more store
\* operation and the return
create_word_count(p) ==
    /\ pc[p] = "create_word_count"
    /\ IncCount(p)
    /\ IF RankBump(loc[p].current_user)
       THEN Goto(p, "create_word_rank") /\ UNCHANGED resp
       ELSE Respond(p, 200, loc[p].new_word)
    /\ UNCHANGED <<languages, words, contributions, boot, req, loc,
                   nextUserId, nextWordId, clock, served>>

create_word_rank(p) ==
    /\ pc[p] = "create_word_rank"
    /\ IncRank(p)
    /\ Respond(p, 200, loc[p].new_word)
    /\ UNCHANGED <<languages, words, contributions, boot, req, loc,
                   nextUserId, nextWordId, clock, served>>

(***************************************************************************)
(* update_word                                                             *)
(***************************************************************************)
UpdatableFields == {"word", "meanings"}

\* mutant of UpdateData: every field of the payload is copied
UpdateDataUnfiltered(word_data, user_id, now) ==
    [f \in {"last_modified_by", "updated_at"} \cup DOMAIN word_data |->
        IF f \in DOMAIN word_data THEN word_data[f]
        ELSE IF f = "last_modified_by" THEN user_id ELSE now]

\* update_data: the two stamps, then the payload's fields that pass the test
UpdateData(word_data, user_id, now) ==
    [f \in {"last_modified_by", "updated_at"} \cup (DOMAIN word_data \cap UpdatableFields) |->
        IF f \in DOMAIN word_data \cap UpdatableFields THEN word_data[f]
        ELSE IF f = "last_modified_by" THEN user_id ELSE now]

update_word(p, token, word_id, word_data) ==
    /\ Accept(p, [op |-> "update_word", token |-> token, word_id |-> word_id,
                  word_data |-> word_data])
    /\ LET cu == get_current_user(token)
       IN  IF cu = <<>> THEN Unauthorized(p)
           ELSE /\ Goto(p, "update_word_find")
                /\ loc' = [loc EXCEPT ![p] = [current_user |-> cu[1]]]
                /\ UNCHANGED resp
    /\ UNCHANGED <<store, boot, nextUserId, nextWordId, clock>>

\* find_one({"id": word_id}); 404 when missing, else update_data is built
update_word_find(p) ==
    /\ pc[p] = "update_word_find"
    /\ IF find_one(words, "id", req[p].word_id) = <<>>
       THEN /\ Respond(p, 404, "Word not found")
            /\ UNCHANGED <<loc, clock>>
       ELSE /\ Goto(p, "update_word_set")
            /\ loc' = [loc EXCEPT ![p] =
                         [current_user |-> loc[p].current_user,
                          update_data |-> UpdateData(req[p].word_data,
                                                     loc[p].current_user.id, clock)]]
            /\ clock' = clock + 1
            /\ UNCHANGED resp
    /\ UNCHANGED <<store, boot, req, nextUserId, nextWordId, served>>

update_word_set(p) ==
    /\ pc[p] = "update_word_set"
    /\ words' = update_one_set(words, req[p].word_id, loc[p].update_data)
    /\ Goto(p, "update_word_record")
    /\ UNCHANGED <<users, languages, contributions, boot, req, loc, resp,
                   nextUserId, nextWordId, clock, served>>

\* mutant of update_word_record: one entry per user and word, replaced on edit
update_word_record_upsert(p) ==
    /\ pc[p] = "update_word_record"
    /\ LET entry == Contribution(loc[p].current_user.id, req[p].word_id,
                                 "edit", req[p].word_data)
           old == {k \in DOMAIN contributions :
                     /\ contributions[k].user_id = entry.user_id
                     /\ contributions[k].word_id = entry.word_id}
       IN  contributions' = IF old = {} THEN Append(contributions, entry)
                            ELSE [contributions EXCEPT ![Min(old)] = entry]
    /\ Goto(p, "update_word_count")
    /\ UNCHANGED <<users, languages, words, boot, req, loc, resp,
                   nextUserId, nextWordId, clock, served>>

update_word_record(p) ==
    /\ pc[p] = "update_word_record"
    /\ contributions' = insert_one(contributions,
                            Contribution(loc[p].current_user.id, req[p].word_id,
                                         "edit", req[p].word_data))
    /\ Goto(p, "update_word_count")
    /\ UNCHANGED <<users, languages, words, boot, req, loc, resp,
                   nextUserId, nextWordId, clock, served>>

update_word_count(p) ==
    /\ pc[p] = "update_word_count"
    /\ IncCount(p)
    /\ Goto(p, IF RankBump(loc[p].current_user) THEN "update_word_rank"
                                                 ELSE "update_word_refetch")
    /\ UNCHANGED <<languages, words, contributions, boot, req, loc, resp,
                   nextUserId, nextWordId, clock, served>>

update_word_rank(p) ==
    /\ pc[p] = "update_word_rank"
    /\ IncRank(p)
    /\ Goto(p, "update_word_refetch")
    /\ UNCHANGED <<languages, words, contributions, boot, req, loc, resp,
                   nextUserId, nextWordId, clock, served>>

\* updated_word = find_one({"id": word_id}); return Word(**updated_word)
update_word_refetch(p) ==
    /\ pc[p] = "update_word_refetch"
    /\ Respond(p, 200, find_one(words, "id", req[p].word_id)[1])
    /\ UNCHANGED <<store, boot, req, loc, nextUserId, nextWordId, clock, served>>

(***************************************************************************)
(* The reads.                                                              *)
(***************************************************************************)
\* "$options": "i"
Lower(c) == CASE c = "C" -> "c" [] c = "A" -> "a" [] c = "T" -> "t" [] OTHER -> c

LowerAll(text) == [i \in DOMAIN text |-> Lower(text[i])]

\* {"$regex": f"^{word}", "$options": "i"} for a word of plain letters
PrefixMatch(text, word) ==
    /\ Len(word) <= Len(text)
    /\ SubSeq(LowerAll(text), 1, Len(word)) = LowerAll(word)

\* {"$regex": search, "$options": "i"} for a search of plain letters
SubstringMatch(text, search) ==
    \E i \in 1..(Len(text) + 1) :
        /\ i + Len(search) - 1 <= Len(text)
        /\ SubSeq(LowerAll(text), i, i + Len(search) - 1) = LowerAll(search)

\* m.get("language_id")
MeaningLanguage(m) == IF "language_id" \in DOMAIN m THEN m.language_id ELSE None

\* the test that keeps a meaning
MeaningKept(m, to_language) == MeaningLanguage(m) = to_language

FilteredMeanings(w, to_language) ==
    SelectSeq(w.meanings, LAMBDA m : MeaningKept(m, to_language))

\* mutant of FilterResults: a word whose filtered list is empty is kept
FilterResultsKeepingEmpty(result, to_language) ==
    [k \in DOMAIN result |->
        [result[k] EXCEPT !.meanings =
            SelectSeq(result[k].meanings,
                      LAMBDA m : "language_id" \in DOMAIN m /\ m.language_id = to_language)]]

\* the loop over result that builds filtered_results: each word gets its
\* filtered meanings, and is kept when that list is not empty
FilterResults(result, to_language) ==
    SelectSeq([k \in DOMAIN result |->
                  [result[k] EXCEPT !.meanings = FilteredMeanings(result[k], to_language)]],
              LAMBDA word_copy : word_copy.meanings # <<>>)

\* db.words.find(query).to_list(100)
SearchQuery(word, from_language) ==
    Take(SelectSeq(words,
                   LAMBDA w : /\ PrefixMatch(w.word, word)
                              /\ Falsy(from_language) \/ w.language_id = from_language),
         SearchLimit)

\* the value search_words returns
SearchResult(word, from_language, to_language) ==
    LET result == SearchQuery(word, from_language)
    IN  IF ~Falsy(to_language) /\ result # <<>>
        THEN FilterResults(result, to_language)
        ELSE result

search_words(p, word, from_language, to_language) ==
    /\ Accept(p, [op |-> "search_words", word |-> word,
                  from_language |-> from_language, to_language |-> to_language])
    /\ Respond(p, 200, SearchResult(word, from_language, to_language))
    /\ UNCHANGED <<store, boot, loc, nextUserId, nextWordId, clock>>

\* mutant of MayViewContributions: the role alone decides
MayViewByRoleOnly(current_user, user_id) ==
    current_user.role \in {"moderator", "admin"}

\* the ownership-or-role test of get_user_contributions
MayViewContributions(current_user, user_id) ==
    ~(current_user.id # user_id /\ current_user.role \notin {"moderator", "admin"})

get_user_contributions(p, token, user_id) ==
    /\ Accept(p, [op |-> "get_user_contributions", token |-> token, user_id |-> user_id])
    /\ LET cu == get_current_user(token)
       IN  IF cu = <<>> THEN Unauthorized(p)
           ELSE IF ~MayViewContributions(cu[1], user_id)
           THEN /\ Respond(p, 403, "Not authorized to view these contributions")
                /\ loc' = [loc EXCEPT ![p] = [current_user |-> cu[1]]]
           ELSE /\ Goto(p, "get_user_contributions_find")
                /\ loc' = [loc EXCEPT ![p] = [current_user |-> cu[1]]]
                /\ UNCHANGED resp
    /\ UNCHANGED <<store, boot, nextUserId, nextWordId, clock>>

\* db.contributions.find({"user_id": user_id}).to_list(1000)
get_user_contributions_find(p) ==
    /\ pc[p] = "get_user_contributions_find"
    /\ Respond(p, 200, Take(find(contributions, "user_id", req[p].user_id), ListLimit))
    /\ UNCHANGED <<store, boot, req, loc, nextUserId, nextWordId, clock, served>>

get_languages(p) ==
    /\ Accept(p, [op |-> "get_languages"])
    /\ Respond(p, 200, Take(languages, ListLimit))
    /\ UNCHANGED <<store, boot, loc, nextUserId, nextWordId, clock>>

get_words(p, language_id, search) ==
    /\ Accept(p, [op |-> "get_words", language_id |-> language_id, search |-> search])
    /\ Respond(p, 200,
               Take(SelectSeq(words,
                              LAMBDA w : /\ Falsy(language_id) \/ w.language_id = language_id
                                         /\ search = <<>> \/ SubstringMatch(w.word, search)),
                    ListLimit))
    /\ UNCHANGED <<store, boot, loc, nextUserId, nextWordId, clock>>

get_word(p, word_id) ==
    /\ Accept(p, [op |-> "get_word", word_id |-> word_id])
    /\ LET word == find_one(words, "id", word_id)
       IN  IF word = <<>> THEN Respond(p, 404, "Word not found")
           ELSE Respond(p, 200, word[1])
    /\ UNCHANGED <<store, boot, loc, nextUserId, nextWordId, clock>>

read_users_me(p, token) ==
    /\ Accept(p, [op |-> "read_users_me", token |-> token])
    /\ LET cu == get_current_user(token)
       IN  IF cu = <<>> THEN Unauthorized(p)
           ELSE Respond(p, 200, cu[1]) /\ UNCHANGED loc
    /\ UNCHANGED <<store, boot, nextUserId, nextWordId, clock>>

(***************************************************************************)
(* The requests the clients send.                                          *)
(***************************************************************************)
Cats == <<"C", "a", "t", "s">>

Gato == [language_id |-> "l-es", meaning |-> "gato"]
Chat == [language_id |-> "l-fr", meaning |-> "chat"]

Tokens == {"admin", "alice", "mod", "carol"}

UserCreates ==
    {[username |-> u, email |-> e] :
        u \in {"alice", "carol"}, e \in {"alice@example.com", "carol@example.com"}}

WordCreates == {[word |-> Cats, language_id |-> "l-en", meanings |-> <<Gato, Chat>>]}

\* update payloads: a recognised field alone, and recognised fields together
\* with fields update_word does not know
WordUpdates ==
    {[word |-> Cats],
     [meanings |-> <<Chat>>, id |-> 0, created_by |-> 0, verified |-> "yes"]}

WordIds == {1, 2}

UserIds == {2, 3}

Languages == {Language("l-sw", "Swahili", "sw")}

Step(p) ==
    \/ register_find_email(p) \/ register_insert(p)
    \/ create_language_insert(p)
    \/ create_word_insert(p) \/ create_word_record(p)
    \/ create_word_count(p) \/ create_word_rank(p)
    \/ update_word_find(p) \/ update_word_set(p) \/ update_word_record(p)
    \/ update_word_count(p) \/ update_word_rank(p) \/ update_word_refetch(p)
    \/ get_user_contributions_find(p)
    \/ Return(p)

Startup ==
    \/ startup_count \/ startup_insert_languages
    \/ startup_find_admin \/ startup_insert_admin

(***************************************************************************)
(* Spec: every handler, two coroutines in flight, a budget of requests.    *)
(***************************************************************************)
MayAccept == served < MaxRequests

RegisterRequest(p) ==
    MayAccept /\ \E user_data \in UserCreates : register_user(p, user_data)

CreateLanguageRequest(p) ==
    MayAccept /\ \E token \in Tokens, language \in Languages :
                    create_language(p, token, language)

CreateWordRequest(p) ==
    MayAccept /\ \E token \in Tokens, word_data \in WordCreates :
                    create_word(p, token, word_data)

UpdateWordRequest(p) ==
    MayAccept /\ \E token \in Tokens, word_id \in WordIds, word_data \in WordUpdates :
                    update_word(p, token, word_id, word_data)

ContributionsRequest(p) ==
    MayAccept /\ \E token \in Tokens, user_id \in UserIds :
                    get_user_contributions(p, token, user_id)

SearchRequest(p) ==
    MayAccept /\ \E to_language \in {None, "l-es"} :
                    search_words(p, <<"c">>, None, to_language)

LanguagesRequest(p) == MayAccept /\ get_languages(p)

WordsRequest(p) ==
    MayAccept /\ \E search \in {<<>>, <<"a", "t">>} : get_words(p, None, search)

WordRequest(p) == MayAccept /\ \E word_id \in WordIds : get_word(p, word_id)

MeRequest(p) == MayAccept /\ \E token \in Tokens : read_users_me(p, token)

Request(p) ==
    \/ RegisterRequest(p) \/ CreateLanguageRequest(p)
    \/ CreateWordRequest(p) \/ UpdateWordRequest(p)
    \/ ContributionsRequest(p) \/ SearchRequest(p)
    \/ LanguagesRequest(p) \/ WordsRequest(p) \/ WordRequest(p) \/ MeRequest(p)

Next ==
    \/ Startup
    \/ \E p \in Procs : Step(p)
    \/ \E p \in Procs : Request(p)

Spec == Init /\ [][Next]_vars

(***************************************************************************)
(* SpecSeq: one user's contributions one after another.  A request is      *)
(* accepted only when no other is in flight; carol registers and then      *)
(* creates and edits words.                                                *)
(***************************************************************************)
Quiet == \A p \in Procs : pc[p] = "idle"

MayAcceptSeq == Quiet /\ served < MaxSeqRequests

Carol == [username |-> "carol", email |-> "carol@example.com"]

SeqRegister(p) == MayAcceptSeq /\ register_user(p, Carol)

SeqCreateWord(p) ==
    MayAcceptSeq /\ \E word_data \in WordCreates : create_word(p, "carol", word_data)

SeqUpdateWord(p) ==
    MayAcceptSeq /\ update_word(p, "carol", 1, [word |-> Cats])

SeqStep(p) ==
    \/ register_find_email(p) \/ register_insert(p)
    \/ create_word_insert(p) \/ create_word_record(p)
    \/ create_word_count(p) \/ create_word_rank(p)
    \/ update_word_find(p) \/ update_word_set(p) \/ update_word_record(p)
    \/ update_word_count(p) \/ update_word_rank(p) \/ update_word_refetch(p)
    \/ Return(p)

NextSeq ==
    \/ Startup
    \/ \E p \in Procs : SeqStep(p)
    \/ \E p \in Procs : SeqRegister(p) \/ SeqCreateWord(p) \/ SeqUpdateWord(p)

SpecSeq == Init /\ [][NextSeq]_vars

(***************************************************************************)
(* SpecSearch: search_words is a function of the words collection and its  *)
(* parameters; the collection is drawn from small stores and from stores   *)
(* at the size of the query's to_list window.                              *)
(***************************************************************************)
Act == <<"a", "c", "t">>

\* a meaning without a language_id key, and one with an empty one
Bare == [meaning |-> "feline"]
Blank == [language_id |-> "", meaning |-> "felis"]

WordKinds ==
    {[word |-> Cat, language_id |-> "l-en", meanings |-> <<Gato, Chat, Gato>>],
     [word |-> Cats, language_id |-> "l-en", meanings |-> <<Chat>>],
     [word |-> Act, language_id |-> "l-fr", meanings |-> <<Gato>>],
     [word |-> Cat, language_id |-> "l-es", meanings |-> <<Bare, Blank, Gato>>]}

StoredWord(id, kind) == Word(id, kind.word, kind.language_id, kind.meanings, 1, 0)

SmallStores ==
    {<<>>}
    \cup {<<StoredWord(1, k)>> : k \in WordKinds}
    \cup {<<StoredWord(1, k), StoredWord(2, l)>> : k \in WordKinds, l \in WordKinds}

\* n words "Cats" without a Spanish meaning, closed by a "cat" that has one
FullStore(n) ==
    [i \in 1..n |->
        StoredWord(i, IF i = n
                      THEN [word |-> Cat, language_id |-> "l-en", meanings |-> <<Gato, Chat>>]
                      ELSE [word |-> Cats, language_id |-> "l-en", meanings |-> <<Chat>>])]

InitSearch ==
    /\ words \in SmallStores \cup {FullStore(SearchLimit), FullStore(SearchLimit + 1)}
    /\ users = <<>> /\ languages = CommonLanguages /\ contributions = <<>>
    /\ nextUserId = 1 /\ nextWordId = Len(words) + 1 /\ clock = 1
    /\ boot = "serving"
    /\ pc = [p \in Procs |-> "idle"]
    /\ req = [p \in Procs |-> NoReq]
    /\ loc = [p \in Procs |-> NoLoc]
    /\ resp = [p \in Procs |-> NoResp]
    /\ served = 0

SearchWords == {<<>>, <<"c">>, <<"C", "A">>}
FromLanguages == {None, "l-en"}
ToLanguages == {None, "", "l-es", "l-fr"}

Search(p) ==
    /\ served < MaxSearchRequests
    /\ \E word \in SearchWords, from_language \in FromLanguages, to_language \in ToLanguages :
          search_words(p, word, from_language, to_language)

NextSearch == \E p \in Procs : Search(p) \/ Return(p)

SpecSearch == InitSearch /\ [][NextSearch]_vars

(***************************************************************************)
(* Vocabulary of the properties.                                           *)
(***************************************************************************)
\* handler p has just produced its response with this step
Completes(p, op) == pc[p] # "done" /\ pc'[p] = "done" /\ req'[p].op = op

Finished(p, op) == pc[p] = "done" /\ req[p].op = op

NoneInFlight == \A p \in Procs : pc[p] \in {"idle", "done"}

\* the ledger entries that name user id
EntriesOf(id) == SelectSeq(contributions, LAMBDA c : c.user_id = id)

ContributionOps == {"create_word", "update_word"}

(***************************************************************************)
(* C1.  Username and email are each unique across all users: in every      *)
(* reachable state no two user records share a username and no two share   *)
(* an email.  (The code checks and then inserts in separate store          *)
(* operations; two interleaved registrations both pass the checks.)        *)
(***************************************************************************)
C1_UniqueUsernameAndEmail ==
    \A i, j \in DOMAIN users :
        i # j => /\ users[i].username # users[j].username
                 /\ users[i].email # users[j].email

(***************************************************************************)
(* C2.  In a run where one user's create_word/update_word requests follow  *)
(* one another, whenever no request is in flight the user's                *)
(* contribution_count is the number of contributions recorded for them     *)
(* and contributor_rank is the number of pre-increment counts              *)
(* 0 .. count-1 that are multiples of 10: the rank was incremented in      *)
(* exactly the requests that read a count in {0, 10, 20, ...}; so after    *)
(* 10 requests the count is 10 and the rank has been incremented once.     *)
(***************************************************************************)
C2_RankCountsPreIncrementMultiplesOfTen ==
    NoneInFlight =>
        \A i \in DOMAIN users :
            /\ users[i].contribution_count = Len(EntriesOf(users[i].id))
            /\ users[i].contributor_rank =
                  Cardinality({k \in 0..(users[i].contribution_count - 1) : k % 10 = 0})

C2_TenRequestsOneIncrement ==
    /\ NoneInFlight
    /\ \E i \in DOMAIN users :
          /\ users[i].username = "carol"
          /\ Len(EntriesOf(users[i].id)) = 10
          /\ users[i].contribution_count = 10
          /\ users[i].contributor_rank = 1

(***************************************************************************)
(* C3, as claimed.  In a sequential run the rank increment happens in the  *)
(* request that moves contribution_count from 9 to 10 (19 to 20, ...) and  *)
(* in no other: when the rank is incremented, the count, which that        *)
(* request has already advanced, is a positive multiple of 10.             *)
(***************************************************************************)
C3_IncrementWhenCountReachesTen ==
    [][\A i \in DOMAIN users :
          users'[i].contributor_rank # users[i].contributor_rank =>
              /\ users[i].contribution_count > 0
              /\ users[i].contribution_count % 10 = 0]_vars

(***************************************************************************)
(* C3, amended.  In a sequential run the rank increment happens in the     *)
(* request that moves contribution_count from 0 to 1 (10 to 11, ...), and  *)
(* in no other: the rank changes only by +1 and only when the count that   *)
(* request has already advanced is 1 more than a multiple of 10, and a     *)
(* request that advances the count goes on to increment the rank exactly   *)
(* when the count it advanced was a multiple of 10.                        *)
(***************************************************************************)
C3_IncrementWhenCountLeavesMultipleOfTen ==
    [][\A i \in DOMAIN users :
          /\ users'[i].contributor_rank # users[i].contributor_rank =>
                /\ users'[i].contributor_rank = users[i].contributor_rank + 1
                /\ users[i].contribution_count % 10 = 1
          /\ users'[i].contribution_count # users[i].contribution_count =>
                /\ users'[i].contribution_count = users[i].contribution_count + 1
                /\ (users[i].contribution_count % 10 = 0) <=>
                      \E p \in Procs :
                          /\ pc'[p] \in {"create_word_rank", "update_word_rank"}
                          /\ loc[p].current_user.id = users[i].id]_vars

C3_SecondIncrementAtEleven ==
    /\ NoneInFlight
    /\ \E i \in DOMAIN users :
          /\ users[i].username = "carol"
          /\ users[i].contribution_count = 11
          /\ users[i].contributor_rank = 2

(***************************************************************************)
(* C4.  create_language answers 200 and inserts the language only when     *)
(* the caller resolved from the token has role moderator or admin; for a   *)
(* caller with role user or contributor it answers 403 and leaves the      *)
(* languages collection as it was.  Apart from the startup seed, nothing   *)
(* else changes that collection.                                           *)
(***************************************************************************)
C4_OnlyModeratorsCreateLanguages ==
    [][/\ \A p \in Procs :
            (Completes(p, "create_language") /\ resp'[p].status # 401) =>
                LET caller == loc'[p].current_user
                IN  /\ get_current_user(req'[p].token) # <<>>
                    /\ caller.id = get_current_user(req'[p].token)[1].id
                    /\ caller.role = get_current_user(req'[p].token)[1].role
                    /\ IF caller.role \in {"moderator", "admin"}
                       THEN /\ resp'[p].status = 200
                            /\ languages' = Append(languages, req'[p].language)
                       ELSE /\ caller.role \in {"user", "contributor"}
                            /\ resp'[p].status = 403
                            /\ languages' = languages
       /\ languages' # languages =>
             \/ boot = "insert_languages"
             \/ \E p \in Procs :
                   /\ Completes(p, "create_language")
                   /\ loc[p].current_user.role \in {"moderator", "admin"}]_vars

C4_RejectedAndAccepted ==
    \E p, q \in Procs :
        /\ Finished(p, "create_language") /\ resp[p].status = 403
        /\ loc[p].current_user.role \in {"user", "contributor"}
        /\ Finished(q, "create_language") /\ resp[q].status = 200
        /\ loc[q].current_user.role = "moderator"
        /\ Len(languages) = Len(CommonLanguages) + 1

(***************************************************************************)
(* C5.  Listing the contributions of user S answers 200 with S's ledger    *)
(* entries (at most the first 1000) when the caller is S or has role       *)
(* moderator or admin, and answers 403 carrying no entries for every       *)
(* other caller.                                                           *)
(***************************************************************************)
C5_ContributionsOfSelfOrForModerators ==
    [][\A p \in Procs :
          (Completes(p, "get_user_contributions") /\ resp'[p].status # 401) =>
              LET caller == loc'[p].current_user
                  subject == req'[p].user_id
                  ledger == SelectSeq(contributions, LAMBDA c : c.user_id = subject)
              IN  /\ get_current_user(req'[p].token) # <<>>
                  /\ caller.id = get_current_user(req'[p].token)[1].id
                  /\ caller.role = get_current_user(req'[p].token)[1].role
                  /\ IF caller.id = subject \/ caller.role \in {"moderator", "admin"}
                     THEN /\ resp'[p].status = 200
                          /\ resp'[p].body = Take(ledger, 1000)
                     ELSE /\ resp'[p].status = 403
                          /\ resp'[p].body = "Not authorized to view these contributions"]_vars

C5_ForbiddenAndAllowed ==
    \E p, q \in Procs :
        /\ Finished(p, "get_user_contributions") /\ resp[p].status = 403
        /\ loc[p].current_user.role = "user" /\ loc[p].current_user.id # req[p].user_id
        /\ Finished(q, "get_user_contributions") /\ resp[q].status = 200
        /\ loc[q].current_user.role = "moderator" /\ loc[q].current_user.id # req[q].user_id
        /\ resp[q].body # <<>>

(***************************************************************************)
(* C6.  update_word on an existing word writes only word and meanings      *)
(* (each when the payload has it), last_modified_by and updated_at; every  *)
(* other field of the stored word, and every other word, stays as it was   *)
(* and no field is added; the contribution recorded for the update         *)
(* carries the whole payload as its change-details.                        *)
(***************************************************************************)
C6_UpdateWritesOnlyKnownFields ==
    [][\A p \in Procs :
          /\ (pc[p] = "update_word_set" /\ pc'[p] # "update_word_set") =>
                LET payload == req[p].word_data
                    hits == {i \in DOMAIN words : words[i].id = req[p].word_id}
                IN  /\ hits # {}
                    /\ DOMAIN words' = DOMAIN words
                    /\ \A i \in DOMAIN words :
                          IF i # Min(hits) THEN words'[i] = words[i]
                          ELSE /\ DOMAIN words'[i] = DOMAIN words[i]
                               /\ \A f \in DOMAIN words[i] \ {"word", "meanings", "last_modified_by",
                                                             "updated_at"} :
                                     words'[i][f] = words[i][f]
                               /\ words'[i].word =
                                     IF "word" \in DOMAIN payload THEN payload.word
                                                                  ELSE words[i].word
                               /\ words'[i].meanings =
                                     IF "meanings" \in DOMAIN payload THEN payload.meanings
                                                                      ELSE words[i].meanings
                               /\ words'[i].last_modified_by = loc[p].current_user.id
                               /\ words'[i].updated_at >= words[i].created_at
          /\ (pc[p] = "update_word_record" /\ pc'[p] # "update_word_record") =>
                /\ Len(contributions') = Len(contributions) + 1
                /\ contributions'[Len(contributions')].contribution_type = "edit"
                /\ contributions'[Len(contributions')].change_details = req[p].word_data]_vars

C6_UnknownFieldRecordedNotStored ==
    \E p \in Procs :
        /\ Finished(p, "update_word") /\ resp[p].status = 200
        /\ "verified" \in DOMAIN req[p].word_data
        /\ resp[p].body.id = req[p].word_id
        /\ "verified" \notin DOMAIN resp[p].body
        /\ resp[p].body.meanings = req[p].word_data.meanings
        /\ resp[p].body.created_by # req[p].word_data.created_by
        /\ \E k \in DOMAIN contributions :
              /\ contributions[k].contribution_type = "edit"
              /\ DOMAIN contributions[k].change_details = DOMAIN req[p].word_data
              /\ contributions[k].change_details.verified = "yes"

(***************************************************************************)
(* What the search claims speak of, stated without the handler's code.     *)
(***************************************************************************)
\* the stored words the query matches, all of them, in store order
QueryMatches(word, from_language) ==
    SelectSeq(words,
              LAMBDA w : /\ PrefixMatch(w.word, word)
                         /\ from_language \in {None, ""} \/ w.language_id = from_language)

Targets(m, L) == "language_id" \in DOMAIN m /\ m.language_id = L

HasMeaningFor(w, L) == \E k \in DOMAIN w.meanings : Targets(w.meanings[k], L)

\* the words of matches with a meaning for L, each reduced to those meanings
TranslationsInto(matches, L) ==
    LET kept == SelectSeq(matches, LAMBDA w : HasMeaningFor(w, L))
    IN  [k \in DOMAIN kept |->
            [kept[k] EXCEPT !.meanings = SelectSeq(kept[k].meanings, LAMBDA m : Targets(m, L))]]

(***************************************************************************)
(* C7, as claimed.  search with to_language = L (a language id, so not    *)
(* empty) returns exactly the query-matching words that have a meaning     *)
(* whose target language is L, each with its meanings reduced to those     *)
(* targeting L.                                                            *)
(***************************************************************************)
C7_SearchReturnsEveryTranslation ==
    \A p \in Procs :
        (Finished(p, "search_words") /\ req[p].to_language \notin {None, ""}) =>
            resp[p].body = TranslationsInto(QueryMatches(req[p].word, req[p].from_language),
                                            req[p].to_language)

(***************************************************************************)
(* C7, amended.  search with to_language = L returns, of the first 100     *)
(* query-matching words in store order, exactly those that have a meaning  *)
(* whose target language is L, each with its meanings reduced to those     *)
(* targeting L; the stored words are left unchanged.  (Without a           *)
(* to_language, or with an empty one, the first 100 matches are returned   *)
(* as they are.)                                                           *)
(***************************************************************************)
C7_SearchReturnsTranslationsOfFirstHundred ==
    [][\A p \in Procs :
          Completes(p, "search_words") =>
              LET L == req'[p].to_language
                  matches == QueryMatches(req'[p].word, req'[p].from_language)
                  window == IF Len(matches) > 100 THEN SubSeq(matches, 1, 100) ELSE matches
              IN  /\ words' = words
                  /\ resp'[p].status = 200
                  /\ resp'[p].body = IF L \in {None, ""} THEN window
                                     ELSE TranslationsInto(window, L)]_vars

C7_WordDroppedAndMeaningsReduced ==
    \E p \in Procs :
        /\ Finished(p, "search_words") /\ req[p].to_language = "l-es"
        /\ resp[p].body # <<>>
        /\ Len(resp[p].body) < Len(QueryMatches(req[p].word, req[p].from_language))
        /\ \E k \in DOMAIN resp[p].body, i \in DOMAIN words :
              /\ words[i].id = resp[p].body[k].id
              /\ Len(resp[p].body[k].meanings) < Len(words[i].meanings)
              /\ Len(resp[p].body[k].meanings) > 1

(***************************************************************************)
(* C8.  The ledger is append-only: a step either leaves it as it was or    *)
(* appends one entry, and the appending steps are the record step of a     *)
(* create_word (type add, the acting user, the new word) and of an         *)
(* update_word that found its word (type edit, the acting user, the word   *)
(* of the request).  A create_word or update_word that answers 200 has     *)
(* taken its record step, once; no other handler and no update_word that   *)
(* answers 404 has one.                                                    *)
(***************************************************************************)
C8_LedgerGrowsOnlyByRecordedContributions ==
    [][/\ \/ contributions' = contributions
          \/ \E p \in Procs :
                /\ pc[p] = "create_word_record" /\ pc'[p] = "create_word_count"
                /\ contributions' =
                      Append(contributions,
                             [user_id |-> loc[p].current_user.id,
                              word_id |-> loc[p].new_word.id,
                              contribution_type |-> "add",
                              change_details |-> [word |-> req[p].word_data.word]])
          \/ \E p \in Procs :
                /\ pc[p] = "update_word_record" /\ pc'[p] = "update_word_count"
                /\ \E i \in DOMAIN words : words[i].id = req[p].word_id
                /\ contributions' =
                      Append(contributions,
                             [user_id |-> loc[p].current_user.id,
                              word_id |-> req[p].word_id,
                              contribution_type |-> "edit",
                              change_details |-> req[p].word_data])
       /\ \A p \in Procs :
             /\ pc'[p] = "create_word_count" =>
                   pc[p] \in {"create_word_record", "create_word_count"}
             /\ pc'[p] = "update_word_count" =>
                   pc[p] \in {"update_word_record", "update_word_count"}
             /\ (pc'[p] = "create_word_rank" /\ pc[p] # pc'[p]) => pc[p] = "create_word_count"
             /\ (pc'[p] = "update_word_rank" /\ pc[p] # pc'[p]) => pc[p] = "update_word_count"
             /\ (pc'[p] = "update_word_refetch" /\ pc[p] # pc'[p]) =>
                   pc[p] \in {"update_word_count", "update_word_rank"}
             /\ (Completes(p, "create_word") /\ resp'[p].status = 200) =>
                   pc[p] \in {"create_word_count", "create_word_rank"}
             /\ (Completes(p, "update_word") /\ resp'[p].status = 200) =>
                   pc[p] = "update_word_refetch"
             /\ (pc[p] = "create_word_record" /\ pc'[p] # pc[p]) =>
                   Len(contributions') = Len(contributions) + 1
             /\ (pc[p] = "update_word_record" /\ pc'[p] # pc[p]) =>
                   Len(contributions') = Len(contributions) + 1]_vars

C8_OneEntryForTheEditNoneForTheMiss ==
    \E p, q \in Procs :
        /\ Finished(p, "update_word") /\ resp[p].status = 200
        /\ Finished(q, "update_word") /\ resp[q].status = 404
        /\ contributions =
              Append(EarlierContributions,
                     [user_id |-> loc[p].current_user.id, word_id |-> req[p].word_id,
                      contribution_type |-> "edit", change_details |-> req[p].word_data])

(***************************************************************************)
(* C9.  Two contributions of one user can race: whenever two completed     *)
(* create_word/update_word requests of the same user both read the same    *)
(* pre-increment count c, a multiple of 10, both have incremented the      *)
(* rank, so the rank stands at least 2 above the rank r they read, while   *)
(* the two requests run one after the other read c and c+1 and leave it    *)
(* at r+1.                                                                 *)
(***************************************************************************)
C9_SameCountReadTwiceBumpsTwice ==
    \A p, q \in Procs :
        ( /\ p # q
          /\ pc[p] = "done" /\ req[p].op \in ContributionOps /\ resp[p].status = 200
          /\ pc[q] = "done" /\ req[q].op \in ContributionOps /\ resp[q].status = 200
          /\ loc[p].current_user.id = loc[q].current_user.id
          /\ loc[p].current_user.contribution_count = loc[q].current_user.contribution_count
          /\ loc[p].current_user.contribution_count % 10 = 0 ) =>
            LET c == loc[p].current_user.contribution_count
                r == loc[p].current_user.contributor_rank
                sequential == r + Cardinality({k \in {c, c + 1} : k % 10 = 0})
                user == find_one(users, "id", loc[p].current_user.id)[1]
            IN  /\ loc[q].current_user.contributor_rank = r
                /\ user.contribution_count >= c + 2
                /\ user.contributor_rank >= r + 2
                /\ user.contributor_rank > sequential

C9_DoubleBump ==
    \E p, q \in Procs :
        /\ p # q
        /\ pc[p] = "done" /\ req[p].op \in ContributionOps /\ resp[p].status = 200
        /\ pc[q] = "done" /\ req[q].op \in ContributionOps /\ resp[q].status = 200
        /\ loc[p].current_user = loc[q].current_user
        /\ loc[p].current_user.contribution_count = 0
        /\ loc[p].current_user.contributor_rank = 0
        /\ find_one(users, "id", loc[p].current_user.id)[1].contribution_count = 2
        /\ find_one(users, "id", loc[p].current_user.id)[1].contributor_rank = 2

(***************************************************************************)
(* C10.  Under every interleaving, a user's contribution_count is never    *)
(* greater than the number of ledger entries that name the user, equals    *)
(* that number once no request is in flight, and never decreases.          *)
(***************************************************************************)
CountWithinLedger ==
    \A i \in DOMAIN users :
        /\ users[i].contribution_count <= Len(EntriesOf(users[i].id))
        /\ NoneInFlight => users[i].contribution_count = Len(EntriesOf(users[i].id))

C10_CountTracksLedger ==
    [][/\ CountWithinLedger
       /\ CountWithinLedger'
       /\ \A i \in DOMAIN users :
             users'[i].contribution_count >= users[i].contribution_count]_vars

C10_TwoConcurrentContributionsCounted ==
    \E p, q \in Procs :
        /\ p # q
        /\ pc[p] = "done" /\ req[p].op \in ContributionOps /\ resp[p].status = 200
        /\ pc[q] = "done" /\ req[q].op \in ContributionOps /\ resp[q].status = 200
        /\ loc[p].current_user = loc[q].current_user
        /\ LET user == find_one(users, "id", loc[p].current_user.id)[1]
           IN  /\ user.contribution_count = loc[p].current_user.contribution_count + 2
               /\ Len(EntriesOf(user.id)) = user.contribution_count

====
